---- MODULE Spec2Model ----
(***************************************************************************)
(* Model of the diagnostic-session orchestrator of CasewiseMD:             *)
(*   mcp/orchestrator/flow_states.py        FlowStateMachine               *)
(*   mcp/orchestrator/session_orchestrator.py  SessionOrchestrator         *)
(*   mcp/session/models.py, state_manager.py   SessionData, stores         *)
(*   mcp/agents/questions, mcp/agents/grading  the providers               *)
(* Scores are kept in hundredths (0.7 is 70, 0.75 is 75).                  *)
(***************************************************************************)
EXTENDS Integers, Sequences, FiniteSets, TLC

VARIABLES
    sessions,        \* SessionStore.sessions : session_id -> SessionData
    state_machines,  \* SessionOrchestrator.state_machines : session_id -> FlowStateMachine
    last,            \* the last call made on the orchestrator and how it ended
    files,           \* the session files of the "file" persistence: session_id -> JSON text
    handlers         \* the handlers suspended in a provider call: session_id -> coroutine

vars == <<sessions, state_machines, last, files, handlers>>

----------------------------------------------------------------------------
(* Bounds of the model *)

\* number of sessions started in one run of the public API
MaxSessions == 2
\* number of sessions started in one run when the question handler is reachable
MaxHandlerSessions == 1
\* largest number of questions a case's questions.json holds
MaxQuestions == 2
\* number of questions asked in one run, over all its sessions
MaxAsked == 2
\* number of rubric categories (and of answers) in one grading request
MaxCategories == 4
\* longest state history of a FlowStateMachine driven on its own
MaxHistory == 7

----------------------------------------------------------------------------
(* flow_states.py *)

INITIALIZED == "initialized"
CASE_LOADED == "case_loaded"
ASKING_DIAGNOSTIC == "asking_diagnostic"
AWAITING_ANSWER == "awaiting_answer"
GRADING_ANSWER == "grading_answer"
DECIDING_FOLLOW_UP == "deciding_follow_up"
ASKING_FOLLOW_UP == "asking_follow_up"
PROVIDING_TEACHING == "providing_teaching"
SESSION_COMPLETE == "session_complete"
ERROR == "error"

FlowState ==
    { INITIALIZED, CASE_LOADED, ASKING_DIAGNOSTIC, AWAITING_ANSWER, GRADING_ANSWER,
      DECIDING_FOLLOW_UP, ASKING_FOLLOW_UP, PROVIDING_TEACHING, SESSION_COMPLETE, ERROR }

StateTransition(from, to, action) ==
    [from_state |-> from, to_state |-> to, action |-> action]

\* a table that also lets submit_answer leave ASKING_DIAGNOSTIC
_define_transitions_submit_early ==
    << StateTransition(INITIALIZED, CASE_LOADED, "load_case"),
       StateTransition(CASE_LOADED, ASKING_DIAGNOSTIC, "start_questions"),
       StateTransition(ASKING_DIAGNOSTIC, AWAITING_ANSWER, "ask_question"),
       StateTransition(ASKING_DIAGNOSTIC, GRADING_ANSWER, "submit_answer"),
       StateTransition(AWAITING_ANSWER, GRADING_ANSWER, "submit_answer"),
       StateTransition(GRADING_ANSWER, DECIDING_FOLLOW_UP, "grade_complete"),
       StateTransition(DECIDING_FOLLOW_UP, ASKING_FOLLOW_UP, "needs_follow_up"),
       StateTransition(DECIDING_FOLLOW_UP, ASKING_DIAGNOSTIC, "next_question"),
       StateTransition(DECIDING_FOLLOW_UP, SESSION_COMPLETE, "all_complete"),
       StateTransition(ASKING_FOLLOW_UP, AWAITING_ANSWER, "ask_follow_up"),
       StateTransition(DECIDING_FOLLOW_UP, PROVIDING_TEACHING, "provide_teaching"),
       StateTransition(PROVIDING_TEACHING, ASKING_DIAGNOSTIC, "continue_questions"),
       StateTransition(PROVIDING_TEACHING, SESSION_COMPLETE, "complete"),
       StateTransition(ASKING_DIAGNOSTIC, ERROR, "error"),
       StateTransition(GRADING_ANSWER, ERROR, "error"),
       StateTransition(ERROR, INITIALIZED, "reset") >>

\* FlowStateMachine._define_transitions: the list of valid transitions
_define_transitions ==
    << StateTransition(INITIALIZED, CASE_LOADED, "load_case"),
       StateTransition(CASE_LOADED, ASKING_DIAGNOSTIC, "start_questions"),
       StateTransition(ASKING_DIAGNOSTIC, AWAITING_ANSWER, "ask_question"),
       StateTransition(AWAITING_ANSWER, GRADING_ANSWER, "submit_answer"),
       StateTransition(GRADING_ANSWER, DECIDING_FOLLOW_UP, "grade_complete"),
       StateTransition(DECIDING_FOLLOW_UP, ASKING_FOLLOW_UP, "needs_follow_up"),
       StateTransition(DECIDING_FOLLOW_UP, ASKING_DIAGNOSTIC, "next_question"),
       StateTransition(DECIDING_FOLLOW_UP, SESSION_COMPLETE, "all_complete"),
       StateTransition(ASKING_FOLLOW_UP, AWAITING_ANSWER, "ask_follow_up"),
       StateTransition(DECIDING_FOLLOW_UP, PROVIDING_TEACHING, "provide_teaching"),
       StateTransition(PROVIDING_TEACHING, ASKING_DIAGNOSTIC, "continue_questions"),
       StateTransition(PROVIDING_TEACHING, SESSION_COMPLETE, "complete"),
       StateTransition(ASKING_DIAGNOSTIC, ERROR, "error"),
       StateTransition(GRADING_ANSWER, ERROR, "error"),
       StateTransition(ERROR, INITIALIZED, "reset") >>

\* FlowStateMachine.__init__
NewFlowStateMachine ==
    [current_state |-> INITIALIZED, state_history |-> <<INITIALIZED>>]

\* a row test that does not look at the action name
can_transition_any_action(sm, to_state, action) ==
    \E i \in 1..Len(_define_transitions) :
        /\ _define_transitions[i].from_state = sm.current_state
        /\ _define_transitions[i].to_state = to_state

\* FlowStateMachine.can_transition
can_transition(sm, to_state, action) ==
    \E i \in 1..Len(_define_transitions) :
        /\ _define_transitions[i].from_state = sm.current_state
        /\ _define_transitions[i].to_state = to_state
        /\ _define_transitions[i].action = action

\* a transition that moves without asking the table
transition_unchecked(sm, to_state, action) ==
    [current_state |-> to_state,
     state_history |-> Append(sm.state_history, to_state)]

\* a transition that records the state it leaves instead of the state it enters
transition_appends_old(sm, to_state, action) ==
    IF can_transition(sm, to_state, action)
    THEN [current_state |-> to_state,
          state_history |-> Append(sm.state_history, sm.current_state)]
    ELSE sm

\* FlowStateMachine.transition: the machine after the call (the call returns
\* can_transition(sm, to_state, action), which no caller in the orchestrator reads)
transition(sm, to_state, action) ==
    IF can_transition(sm, to_state, action)
    THEN [current_state |-> to_state,
          state_history |-> Append(sm.state_history, to_state)]
    ELSE sm

\* what the call transition(to_state, action) hands back to its caller: the
\* boolean it returns and the exception it raises ("none": it has no raise)
transition_result(sm, to_state, action) ==
    [returned |-> can_transition(sm, to_state, action), raised |-> "none"]

\* FlowStateMachine.reset
reset(sm) == [current_state |-> INITIALIZED, state_history |-> <<INITIALIZED>>]

\* a valid-action set in which the terminal state still offers its way in
get_valid_actions_into(sm) ==
    { _define_transitions[i].action :
        i \in { j \in 1..Len(_define_transitions) :
                  \/ _define_transitions[j].from_state = sm.current_state
                  \/ /\ sm.current_state = SESSION_COMPLETE
                     /\ _define_transitions[j].to_state = sm.current_state } }

\* a valid-action set that does not look at the current state
get_valid_actions_any_state(sm) ==
    { _define_transitions[i].action : i \in 1..Len(_define_transitions) }

\* FlowStateMachine.get_valid_actions
get_valid_actions(sm) ==
    { _define_transitions[i].action :
        i \in { j \in 1..Len(_define_transitions) :
                  _define_transitions[j].from_state = sm.current_state } }

----------------------------------------------------------------------------
(* core/models.py, session/models.py *)

\* SessionState values
S_INITIALIZED == "initialized"
S_CASE_LOADED == "case_loaded"
S_QUESTIONING == "questioning"
S_GRADING == "grading"
S_FOLLOW_UP == "follow_up"
S_TEACHING == "teaching"
S_COMPLETED == "completed"

\* SessionData.total_questions default
DefaultTotalQuestions == 7

CaseIds == {"case001"}
AnswerTexts == {"answer"}

\* SessionData(session_id, case_id): the defaults of the model class.
\* available_questions is metadata["available_questions"], has_case_info is
\* "case_info" in metadata; questions are identified by their position in the
\* case's question list (q_1, q_2, ...), 0 is an id no question has.
NewSessionData(case_id) ==
    [case_id |-> case_id,
     state |-> S_INITIALIZED,
     current_question_index |-> 0,
     total_questions |-> DefaultTotalQuestions,
     questions_asked |-> <<>>,
     answers |-> <<>>,
     grades |-> <<>>,
     follow_up_questions |-> <<>>,
     teaching_points |-> <<>>,
     available_questions |-> <<>>,
     has_case_info |-> FALSE]

\* SessionData.add_question / add_answer / add_grade
add_question(sd, q) == [sd EXCEPT !.questions_asked = Append(@, q)]
add_answer(sd, a) == [sd EXCEPT !.answers = Append(@, a)]
add_grade(sd, g) == [sd EXCEPT !.grades = Append(@, g)]

\* sum of the scores of a list of grades
RECURSIVE SumScores(_)
SumScores(grades) ==
    IF grades = <<>> THEN 0 ELSE grades[1].score + SumScores(Tail(grades))

\* SessionData.get_average_score: 0.0 without grades, else sum(scores) / len(grades),
\* kept as the fraction num / den
get_average_score(sd) ==
    IF sd.grades = <<>>
    THEN [num |-> 0, den |-> 1]
    ELSE [num |-> SumScores(sd.grades), den |-> Len(sd.grades)]

\* a create_session that puts the one new SessionData under every key of the store
SessionStore_create_session_shared(store, session_id, case_id) ==
    [s \in (DOMAIN store) \cup {session_id} |-> NewSessionData(case_id)]

\* SessionStore.create_session
SessionStore_create_session(store, session_id, case_id) ==
    [s \in (DOMAIN store) \cup {session_id} |->
        IF s = session_id THEN NewSessionData(case_id) ELSE store[s]]

\* a lookup by subscript, which raises KeyError on a missing key
SessionStore_get_session_subscript(store, session_id) ==
    IF session_id \in DOMAIN store
    THEN [raised |-> "none", found |-> TRUE]
    ELSE [raised |-> "KeyError", found |-> FALSE]

\* SessionStore.get_session: sessions.get(session_id), None when missing
SessionStore_get_session(store, session_id) ==
    IF session_id \in DOMAIN store
    THEN [raised |-> "none", found |-> TRUE]
    ELSE [raised |-> "none", found |-> FALSE]

----------------------------------------------------------------------------
(* session/state_manager.py, with persistence_type = "memory" as the          *)
(* orchestrator constructs it                                                 *)

\* SessionStateManager.get_session: raises SessionNotFoundError when the store
\* has no session
SessionStateManager_get_session(store, session_id) ==
    LET r == SessionStore_get_session(store, session_id)
    IN  IF r.raised # "none" THEN r
        ELSE IF ~r.found THEN [raised |-> "SessionNotFoundError", found |-> FALSE]
        ELSE r

\* positional parameters of SessionStateManager.update_session besides self
UpdateSessionParams == 1
\* positional arguments the orchestrator passes: update_session(session_id, session_data)
UpdateSessionArgs == 2

\* self.session_manager.update_session(session_id, session_data) as the
\* orchestrator calls it: Python binds the arguments before the body runs
update_session_call ==
    IF UpdateSessionArgs = UpdateSessionParams THEN "none" ELSE "TypeError"

----------------------------------------------------------------------------
(* agents: case, questions, grading *)

\* CaseAgent._load_case_info: case_ok is whether the case loader produced a
\* CaseInfo (it raises, e.g., on a case_id that is no string)
CaseAgent_load_case_info(sd, case_ok) ==
    IF case_ok
    THEN [success |-> TRUE, sd |-> [sd EXCEPT !.has_case_info = TRUE]]
    ELSE [success |-> FALSE, sd |-> sd]

\* what the question loader yields for a case: n questions, or an exception
QuestionLoads ==
    {[ok |-> TRUE, n |-> n] : n \in 0..MaxQuestions} \cup {[ok |-> FALSE, n |-> 0]}

\* QuestionAgent._load_case_questions
QuestionAgent_load_case_questions(sd, load) ==
    IF load.ok
    THEN [success |-> TRUE,
          sd |-> [sd EXCEPT !.questions_asked = <<>>,
                            !.total_questions = load.n,
                            !.available_questions = [i \in 1..load.n |-> i]]]
    ELSE [success |-> FALSE, sd |-> sd]

\* QuestionAgent._get_next_question
QuestionAgent_get_next_question(sd) ==
    IF sd.available_questions = <<>>
    THEN [success |-> FALSE, complete |-> FALSE, sd |-> sd]
    ELSE IF sd.current_question_index >= Len(sd.available_questions)
    THEN [success |-> TRUE, complete |-> TRUE, sd |-> sd]
    ELSE [success |-> TRUE, complete |-> FALSE,
          sd |-> add_question(sd, sd.available_questions[sd.current_question_index + 1])]

\* GradingAgentV2._get_fallback_grading
_get_fallback_grading ==
    [score |-> 75, feedback |-> "AI grading temporarily unavailable",
     needs_follow_up |-> FALSE]

\* what the OpenAI call can produce: a JSON object, an API error or timeout,
\* or a JSON object whose score float() rejects
AIOutcomes ==
    { [kind |-> "json", score |-> 40, feedback |-> "weak", needs_follow_up |-> TRUE],
      [kind |-> "json", score |-> 70, feedback |-> "adequate", needs_follow_up |-> FALSE],
      [kind |-> "api_error", score |-> 0, feedback |-> "", needs_follow_up |-> FALSE],
      [kind |-> "bad_score", score |-> 0, feedback |-> "", needs_follow_up |-> FALSE] }

\* GradingAgentV2._call_openai: any exception yields the fallback grading
_call_openai(ai) ==
    IF ai.kind = "api_error"
    THEN [kind |-> "json"] @@ _get_fallback_grading
    ELSE ai

\* GradingAgentV2._grade_single_answer
GradingAgent_grade_single_answer(sd, question_id, ai) ==
    LET found == \E i \in 1..Len(sd.questions_asked) : sd.questions_asked[i] = question_id
        resp == _call_openai(ai)
        fail == [success |-> FALSE, score |-> 0, feedback |-> "", needs_follow_up |-> FALSE]
    IN  IF ~found THEN fail
        ELSE IF resp.kind = "bad_score" THEN fail
        ELSE [success |-> TRUE, score |-> resp.score, feedback |-> resp.feedback,
              needs_follow_up |-> resp.needs_follow_up]

----------------------------------------------------------------------------
(* orchestrator/session_orchestrator.py *)

\* self.follow_up_threshold = 0.7
follow_up_threshold == 70

\* what a handler leaves behind: the session and the machine as mutated in place,
\* the exception that left the handler ("none" when it returned) and the
\* returned result's status, score and feedback
Handled(sd, sm, raised, status, score, feedback) ==
    [sd |-> sd, sm |-> sm, raised |-> raised, status |-> status,
     score |-> score, feedback |-> feedback]

\* a handler's tail: update_session(session_id, session_data), then return result
PersistAndReturn(sd, sm, status, score, feedback) ==
    IF update_session_call # "none"
    THEN Handled(sd, sm, update_session_call, "none", -1, "")
    ELSE Handled(sd, sm, "none", status, score, feedback)

\* SessionOrchestrator._handle_start_questions
_handle_start_questions(sd, sm) ==
    LET sm1 == transition(sm, ASKING_DIAGNOSTIC, "start_questions")
        sd1 == [sd EXCEPT !.state = S_QUESTIONING]
    IN  PersistAndReturn(sd1, sm1, "ready", -1, "")

\* SessionOrchestrator._handle_get_question
_handle_get_question(sd, sm) ==
    LET q == QuestionAgent_get_next_question(sd)
    IN  IF ~q.success
        THEN Handled(q.sd, sm, "none", "error", -1, "")
        ELSE IF q.complete
        THEN PersistAndReturn([q.sd EXCEPT !.state = S_COMPLETED],
                              transition(sm, SESSION_COMPLETE, "all_complete"),
                              "complete", -1, "")
        ELSE PersistAndReturn([q.sd EXCEPT !.state = S_QUESTIONING],
                              transition(sm, AWAITING_ANSWER, "ask_question"),
                              "question", -1, "")


\* needs_follow_up = score < self.follow_up_threshold
needs_follow_up(score) == score < follow_up_threshold

\* an index step that is taken whether or not a follow-up is needed
index_after_grade_always(sd, score) == sd.current_question_index + 1

\* the current_question_index _handle_submit_answer leaves after a grade
index_after_grade(sd, score) ==
    IF needs_follow_up(score)
    THEN sd.current_question_index
    ELSE sd.current_question_index + 1

\* SessionOrchestrator._handle_submit_answer up to its await of the grading
\* agent: the answer is recorded and the machine moved to GRADING_ANSWER
_submit_answer_before_await(data, sd, sm) ==
    LET answer == [question_id |-> data.question_id, text |-> data.answer]
    IN  [sd |-> [add_answer(sd, answer) EXCEPT !.state = S_GRADING],
         sm |-> transition(sm, GRADING_ANSWER, "submit_answer")]

\* SessionOrchestrator._handle_submit_answer from the grading response g on; sd1
\* and sm1 are the session and the machine as the handler finds them then
_submit_answer_after_await(data, sd1, sm1, g) ==
    LET grading_result == [question_id |-> data.question_id, score |-> g.score,
                           feedback |-> g.feedback, needs_follow_up |-> g.needs_follow_up]
        sd2 == add_grade(sd1, grading_result)
        sm2 == transition(sm1, DECIDING_FOLLOW_UP, "grade_complete")
        sd3 == [sd2 EXCEPT !.current_question_index = index_after_grade(sd2, g.score)]
    IN  IF ~g.success
        THEN Handled(sd1, sm1, "none", "error", -1, "")
        ELSE IF needs_follow_up(g.score)
        THEN PersistAndReturn([sd3 EXCEPT !.state = S_FOLLOW_UP],
                              transition(sm2, ASKING_FOLLOW_UP, "needs_follow_up"),
                              "follow_up_needed", g.score, g.feedback)
        ELSE IF sd3.current_question_index < sd3.total_questions
        THEN PersistAndReturn([sd3 EXCEPT !.state = S_QUESTIONING],
                              transition(sm2, ASKING_DIAGNOSTIC, "next_question"),
                              "next_question", g.score, g.feedback)
        ELSE PersistAndReturn([sd3 EXCEPT !.state = S_COMPLETED],
                              transition(sm2, SESSION_COMPLETE, "all_complete"),
                              "complete", g.score, g.feedback)

\* SessionOrchestrator._handle_submit_answer
_handle_submit_answer(data, sd, sm, ai) ==
    LET b == _submit_answer_before_await(data, sd, sm)
        g == GradingAgent_grade_single_answer(b.sd, data.question_id, ai)
    IN  _submit_answer_after_await(data, b.sd, b.sm, g)

\* SessionOrchestrator._handle_get_feedback
_handle_get_feedback(sd, sm) ==
    LET sd1 == [sd EXCEPT !.teaching_points = Append(@, Len(@)),
                          !.state = S_TEACHING]
    IN  PersistAndReturn(sd1, sm, "teaching_delivered", -1, "")

\* the action names process_action routes to a handler
Dispatched == {"start_questions", "get_question", "submit_answer", "get_feedback"}

\* SessionOrchestrator.process_action after the lookups: the valid-action guard
\* and the routing
dispatch(action, data, sd, sm, ai) ==
    IF action \notin get_valid_actions(sm)
    THEN Handled(sd, sm, "InvalidStateTransition", "none", -1, "")
    ELSE IF action = "start_questions" THEN _handle_start_questions(sd, sm)
    ELSE IF action = "get_question" THEN _handle_get_question(sd, sm)
    ELSE IF action = "submit_answer" THEN _handle_submit_answer(data, sd, sm, ai)
    ELSE IF action = "get_feedback" THEN _handle_get_feedback(sd, sm)
    ELSE Handled(sd, sm, "ValueError", "none", -1, "")

\* the record of a call
Call(op, sid, action, raised, status, score, feedback) ==
    [op |-> op, session_id |-> sid, action |-> action, raised |-> raised,
     status |-> status, score |-> score, feedback |-> feedback]

\* the action names a client sends: the four routed ones and the table's own
ActionNames ==
    Dispatched \cup {"ask_question", "ask_follow_up"}

\* the request body of submit_answer: the id of the question asked last, or
\* an id no asked question has (0)
SubmitData(sd) ==
    { [question_id |-> q, answer |-> a] :
        q \in {0} \cup {sd.questions_asked[i] : i \in {Len(sd.questions_asked)} \ {0}},
        a \in AnswerTexts }

NoData == [question_id |-> 0, answer |-> ""]
NoAI == [kind |-> "api_error", score |-> 0, feedback |-> "", needs_follow_up |-> FALSE]

\* the outcomes of the OpenAI call of a submit_answer: drawn when the call is
\* made, that is when the guard admits the action and the grading agent finds
\* the question
AICalls(session_id, data) ==
    IF /\ session_id \in DOMAIN state_machines
       /\ "submit_answer" \in get_valid_actions(state_machines[session_id])
       /\ \E i \in 1..Len(sessions[session_id].questions_asked) :
             sessions[session_id].questions_asked[i] = data.question_id
    THEN AIOutcomes
    ELSE {NoAI}

\* a session id that start_session has not returned: the next one uuid4 yields
UnknownIds == {Cardinality(DOMAIN sessions) + 1}

----------------------------------------------------------------------------
(* The operations of the orchestrator as actions *)

Init ==
    /\ sessions = << >>
    /\ state_machines = << >>
    /\ last = Call("init", 0, "", "none", "none", -1, "")
    /\ files = << >>
    /\ handlers = << >>

\* SessionOrchestrator.start_session; uuid4 yields an id no session has (the
\* ids are handed out in order), limit bounds the sessions of a run
start_session(limit, case_id, case_ok, load) ==
    /\ Cardinality(DOMAIN sessions) < limit
    /\ LET session_id == Cardinality(DOMAIN sessions) + 1
           store1 == SessionStore_create_session(sessions, session_id, case_id)
           sm1 == transition(NewFlowStateMachine, CASE_LOADED, "load_case")
           sd1 == [store1[session_id] EXCEPT !.state = S_CASE_LOADED]
           c == CaseAgent_load_case_info(sd1, case_ok)
           q == QuestionAgent_load_case_questions(c.sd, load)
           sd_end == IF ~c.success THEN c.sd ELSE q.sd
           raised == IF ~c.success \/ ~q.success THEN "Exception"
                     ELSE update_session_call
       IN  /\ sessions' = [store1 EXCEPT ![session_id] = sd_end]
           /\ state_machines' =
                 [s \in (DOMAIN state_machines) \cup {session_id} |->
                     IF s = session_id THEN sm1 ELSE state_machines[s]]
           /\ last' = Call("start_session", session_id, "", raised,
                           IF raised = "none" THEN "started" ELSE "none", -1, "")

\* start_session on the in-memory store
StartSession(limit, case_id, case_ok, load) ==
    /\ start_session(limit, case_id, case_ok, load)
    /\ UNCHANGED <<files, handlers>>

\* SessionOrchestrator.process_action on a session_id the lookups reject
ProcessActionNotFound(session_id, action) ==
    LET r == SessionStateManager_get_session(sessions, session_id)
        raised == IF r.raised # "none" THEN r.raised
                  ELSE IF session_id \notin DOMAIN state_machines
                       THEN "SessionNotFoundError" ELSE "none"
    IN  /\ raised # "none"
        /\ last' = Call("process_action", session_id, action, raised, "none", -1, "")
        /\ UNCHANGED <<sessions, state_machines, files, handlers>>

\* SessionOrchestrator.process_action on a session both lookups find
ProcessAction(session_id, action, data, ai) ==
    /\ SessionStateManager_get_session(sessions, session_id).raised = "none"
    /\ session_id \in DOMAIN state_machines
    /\ LET h == dispatch(action, data, sessions[session_id],
                         state_machines[session_id], ai)
       IN  /\ sessions' = [sessions EXCEPT ![session_id] = h.sd]
           /\ state_machines' = [state_machines EXCEPT ![session_id] = h.sm]
           /\ last' = Call("process_action", session_id, action, h.raised,
                           h.status, h.score, h.feedback)
           /\ UNCHANGED <<files, handlers>>

\* a progress object that counts the questions asked as answered
progress_counting_asked(sd) ==
    [questions_answered |-> Len(sd.questions_asked),
     current_question_index |-> sd.current_question_index,
     grades_received |-> Len(sd.grades),
     follow_ups_completed |-> Len(sd.follow_up_questions),
     teaching_points |-> Len(sd.teaching_points),
     current_state |-> sd.state]

\* the "progress" object get_session_state returns
progress(sd) ==
    [questions_answered |-> Len(sd.answers),
     current_question_index |-> sd.current_question_index,
     grades_received |-> Len(sd.grades),
     follow_ups_completed |-> Len(sd.follow_up_questions),
     teaching_points |-> Len(sd.teaching_points),
     current_state |-> sd.state]

\* the record of a get_session_state call
StateCall(sid, raised, prog) ==
    [op |-> "get_session_state", session_id |-> sid, action |-> "", raised |-> raised,
     status |-> "none", score |-> -1, feedback |-> "", progress |-> prog]

\* SessionOrchestrator.get_session_state
GetSessionState(session_id) ==
    LET r == SessionStateManager_get_session(sessions, session_id)
        raised == IF r.raised # "none" THEN r.raised
                  ELSE IF session_id \notin DOMAIN state_machines
                       THEN "SessionNotFoundError" ELSE "none"
    IN  /\ last' = StateCall(session_id, raised,
                             IF raised = "none" THEN progress(sessions[session_id])
                             ELSE progress(NewSessionData("")))
        /\ UNCHANGED <<sessions, state_machines, files, handlers>>

\* the record of an end_session call
EndCall(sid, raised, overall_score) ==
    [op |-> "end_session", session_id |-> sid, action |-> "", raised |-> raised,
     status |-> "none", score |-> -1, feedback |-> "", overall_score |-> overall_score]

\* SessionOrchestrator.end_session: the summary is computed, the state is set to
\* COMPLETED, update_session is called, and only then is the machine released
EndSession(session_id) ==
    LET r == SessionStateManager_get_session(sessions, session_id)
        none == [num |-> -1, den |-> 1]
    IN  IF r.raised # "none"
        THEN /\ last' = EndCall(session_id, r.raised, none)
             /\ UNCHANGED <<sessions, state_machines, files, handlers>>
        ELSE LET overall_score == get_average_score(sessions[session_id])
             IN  /\ sessions' = [sessions EXCEPT ![session_id].state = S_COMPLETED]
                 /\ IF update_session_call # "none"
                    THEN /\ state_machines' = state_machines
                         /\ last' = EndCall(session_id, update_session_call, none)
                    ELSE /\ state_machines' =
                               [s \in (DOMAIN state_machines) \ {session_id} |->
                                   state_machines[s]]
                         /\ last' = EndCall(session_id, "none", overall_score)
                 /\ UNCHANGED <<files, handlers>>

\* get_session_state and end_session as clients call them
SessionCalls ==
    \/ \E s \in (DOMAIN sessions) \cup UnknownIds : GetSessionState(s)
    \/ \E s \in (DOMAIN sessions) \cup UnknownIds : EndSession(s)

\* process_action as clients call it
ProcessActions ==
    \/ \E s \in UnknownIds, a \in ActionNames : ProcessActionNotFound(s, a)
    \/ \E s \in DOMAIN sessions, a \in ActionNames \ {"submit_answer"} :
          ProcessAction(s, a, NoData, NoAI)
    \/ \E s \in DOMAIN sessions :
          \E d \in SubmitData(sessions[s]) :
             \E ai \in AICalls(s, d) : ProcessAction(s, "submit_answer", d, ai)

Next ==
    \/ \E c \in CaseIds, ok \in BOOLEAN, load \in QuestionLoads :
          StartSession(MaxSessions, c, ok, load)
    \/ ProcessActions

\* the orchestrator driven through its public operations
Spec == Init /\ [][Next]_vars

\* _handle_get_question entered on a session whose machine is in
\* ASKING_DIAGNOSTIC, the state its ask_question transition leaves from, without
\* process_action's valid-action guard (no row of the table has the action
\* "get_question", so the guard never admits the route to this handler)
HandleGetQuestion(session_id) ==
    /\ session_id \in DOMAIN sessions
    /\ session_id \in DOMAIN state_machines
    /\ state_machines[session_id].current_state = ASKING_DIAGNOSTIC
    /\ LET h == _handle_get_question(sessions[session_id], state_machines[session_id])
       IN  /\ sessions' = [sessions EXCEPT ![session_id] = h.sd]
           /\ state_machines' = [state_machines EXCEPT ![session_id] = h.sm]
           /\ last' = Call("_handle_get_question", session_id, "get_question",
                           h.raised, h.status, h.score, h.feedback)
           /\ UNCHANGED <<files, handlers>>

HandlerNext ==
    \/ \E c \in CaseIds, ok \in BOOLEAN, load \in QuestionLoads :
          StartSession(MaxHandlerSessions, c, ok, load)
    \/ ProcessActions
    \/ \E s \in DOMAIN sessions : HandleGetQuestion(s)

\* the orchestrator with its question handler reachable
HandlerSpec == Init /\ [][HandlerNext]_vars

\* the number of questions asked so far in the sessions ids
RECURSIVE QuestionsAsked(_)
QuestionsAsked(ids) ==
    IF ids = {} THEN 0
    ELSE LET s == CHOOSE x \in ids : TRUE
         IN  Len(sessions[s].questions_asked) + QuestionsAsked(ids \ {s})

\* a client that walks the question loop of cases that load (start_questions,
\* the question handler, submit_answer) and calls get_session_state and
\* end_session at any point of it
LifecycleNext ==
    \/ \E c \in CaseIds, n \in 0..MaxQuestions :
          StartSession(MaxHandlerSessions, c, TRUE, [ok |-> TRUE, n |-> n])
    \/ \E s \in DOMAIN sessions : ProcessAction(s, "start_questions", NoData, NoAI)
    \/ \E s \in DOMAIN sessions :
          \E d \in SubmitData(sessions[s]) :
             \E ai \in AICalls(s, d) : ProcessAction(s, "submit_answer", d, ai)
    \/ \E s \in DOMAIN sessions :
          QuestionsAsked(DOMAIN sessions) < MaxAsked /\ HandleGetQuestion(s)
    \/ SessionCalls

\* the whole life of a session, from start_session to end_session
LifecycleSpec == Init /\ [][LifecycleNext]_vars

\* several clients, each on a session of its own: cases that load with one
\* question, the question loop, get_session_state and end_session
ClientsNext ==
    \/ \E c \in CaseIds : StartSession(MaxSessions, c, TRUE, [ok |-> TRUE, n |-> 1])
    \/ \E s \in DOMAIN sessions : ProcessAction(s, "start_questions", NoData, NoAI)
    \/ \E s \in DOMAIN sessions :
          \E d \in SubmitData(sessions[s]) :
             \E ai \in AICalls(s, d) : ProcessAction(s, "submit_answer", d, ai)
    \/ \E s \in DOMAIN sessions :
          QuestionsAsked(DOMAIN sessions) < MaxAsked /\ HandleGetQuestion(s)
    \/ \E s \in DOMAIN sessions : GetSessionState(s)
    \/ \E s \in DOMAIN sessions : EndSession(s)

\* sessions side by side in one orchestrator
ClientsSpec == Init /\ [][ClientsNext]_vars

----------------------------------------------------------------------------
(* A FlowStateMachine driven on its own, by any caller *)

\* the action names of the table, and the route name get_question that is in no row
TableActions ==
    { _define_transitions[i].action : i \in 1..Len(_define_transitions) }
      \cup {"get_question"}

\* the record of a call on the machine
MachineCall(op, to_state, action, returned, raised, valid) ==
    [op |-> op, to_state |-> to_state, action |-> action, returned |-> returned,
     raised |-> raised, valid |-> valid]

\* FlowStateMachine(): one machine, held under the key 1
MachineInit ==
    /\ sessions = << >>
    /\ state_machines = << NewFlowStateMachine >>
    /\ last = MachineCall("init", INITIALIZED, "", FALSE, "none", {})
    /\ files = << >>
    /\ handlers = << >>

\* sm.transition(to_state, action)
MachineTransition(to_state, action) ==
    LET sm == state_machines[1]
        r == transition_result(sm, to_state, action)
    IN  /\ Len(transition(sm, to_state, action).state_history) <= MaxHistory
        /\ state_machines' = << transition(sm, to_state, action) >>
        /\ last' = MachineCall("transition", to_state, action, r.returned, r.raised, {})
        /\ UNCHANGED <<sessions, files, handlers>>

\* sm.can_transition(to_state, action)
MachineCanTransition(to_state, action) ==
    /\ last' = MachineCall("can_transition", to_state, action,
                           can_transition(state_machines[1], to_state, action), "none", {})
    /\ UNCHANGED <<sessions, state_machines, files, handlers>>

\* sm.get_valid_actions()
MachineGetValidActions ==
    /\ last' = MachineCall("get_valid_actions", state_machines[1].current_state, "",
                           FALSE, "none", get_valid_actions(state_machines[1]))
    /\ UNCHANGED <<sessions, state_machines, files, handlers>>

\* sm.reset()
MachineReset ==
    /\ state_machines' = << reset(state_machines[1]) >>
    /\ last' = MachineCall("reset", INITIALIZED, "", FALSE, "none", {})
    /\ UNCHANGED <<sessions, files, handlers>>

MachineNext ==
    \/ \E t \in FlowState, a \in TableActions : MachineTransition(t, a)
    \/ \E t \in FlowState, a \in TableActions : MachineCanTransition(t, a)
    \/ MachineGetValidActions
    \/ MachineReset

\* the state machine under every sequence of calls
MachineSpec == MachineInit /\ [][MachineNext]_vars

----------------------------------------------------------------------------
(* services/ai_grading.py and the session-level grading of grading_agent_v2.py *)

\* the skip sentinel
SKIPPED == "[SKIPPED]"

\* answers as the content scorer sees them: the stripped text (named by kind),
\* its number of words, of medical terms and of gibberish terms
Answers ==
    { [text |-> SKIPPED, words |-> 1, medical |-> 0, gibberish |-> 0],
      [text |-> "", words |-> 0, medical |-> 0, gibberish |-> 0],
      [text |-> "short", words |-> 5, medical |-> 2, gibberish |-> 0],
      [text |-> "medium", words |-> 30, medical |-> 6, gibberish |-> 0],
      [text |-> "long", words |-> 120, medical |-> 20, gibberish |-> 0] }

Min(a, b) == IF a < b THEN a ELSE b

\* AIGradingService._calculate_content_score
_calculate_content_score(answer) ==
    IF answer.text = "" THEN 0
    ELSE IF answer.gibberish > 2 THEN 0
    ELSE IF answer.words < 10 THEN 25
    ELSE IF answer.words < 50 /\ answer.medical < 10
         THEN Min(40, 20 + answer.medical * 2)
    ELSE IF answer.words >= 100 /\ answer.medical >= 15
         THEN Min(85, 60 + answer.medical)
    ELSE IF answer.words >= 50 /\ answer.medical >= 10
         THEN Min(75, 45 + answer.medical * 2)
    ELSE IF answer.words >= 25 /\ answer.medical >= 5
         THEN Min(65, 35 + answer.medical * 3)
    ELSE Min(45, 25 + answer.medical * 4)

\* `percentage < 70`: the weak-category test of the service (in percent) and of
\* the agent (`score < 0.7`, in hundredths)
WeakBelow == 70

\* the percentages an AI response gives a category
Percentages == {30, 40, 60, 90}

\* the entries of a category_scores dict in insertion order; a category is named
\* by its place in the dict
Items(category_scores) ==
    [i \in 1..Len(category_scores) |-> [category |-> i, score |-> category_scores[i]]]

\* the entries below the threshold, in insertion order
WeakItems(category_scores) ==
    SelectSeq(Items(category_scores), LAMBDA x : x.score < WeakBelow)

\* sorted(weak_categories, key=lambda x: x["score"]): a stable ascending sort
RECURSIVE InsertByScore(_, _)
InsertByScore(sorted, x) ==
    IF sorted = <<>> THEN <<x>>
    ELSE IF x.score < sorted[1].score THEN <<x>> \o sorted
    ELSE <<sorted[1]>> \o InsertByScore(Tail(sorted), x)

RECURSIVE SortedByScore(_)
SortedByScore(items) ==
    IF items = <<>> THEN <<>>
    ELSE InsertByScore(SortedByScore(SubSeq(items, 1, Len(items) - 1)), items[Len(items)])

\* seq[:2]
FirstTwo(seq) == SubSeq(seq, 1, Min(2, Len(seq)))

Categories(items) == [i \in 1..Len(items) |-> items[i].category]

\* AIGradingService._generate_follow_up_questions: the categories of the
\* follow-ups it returns; failing holds the categories whose question the
\* model call does not produce (_generate_category_follow_up returns None)
_generate_follow_up_questions(category_scores, failing) ==
    Categories(SelectSeq(FirstTwo(SortedByScore(WeakItems(category_scores))),
                         LAMBDA x : x.category \notin failing))

\* AIGradingService._fallback_grading: the category_scores it computes for the
\* answers to questions 1..n
fallback_category_scores(answers) ==
    [i \in 1..Len(answers) |->
        IF answers[i].text = SKIPPED THEN 0 ELSE _calculate_content_score(answers[i])]

\* AIGradingService._fallback_grading: the categories of its follow_up_questions
fallback_follow_up_questions(category_scores) ==
    Categories(WeakItems(category_scores))

\* GradingAgentV2._grade_complete_session: data["weak_categories"]
weak_categories(category_scores) ==
    Categories(FirstTwo(WeakItems(category_scores)))

\* the session GradingAgentV2 grades an answer in: question 1 has been asked
GradedSession == add_question(NewSessionData("case001"), 1)

\* the record of a grading call: the scores it yields and the categories it
\* writes follow-ups for
GradingCall(op, answers, category_scores, scores, follow_ups, complete) ==
    [op |-> op, answers |-> answers, category_scores |-> category_scores,
     scores |-> scores, follow_ups |-> follow_ups, complete |-> complete]

GradingInit ==
    /\ sessions = << >>
    /\ state_machines = << >>
    /\ last = GradingCall("init", <<>>, <<>>, <<>>, <<>>, TRUE)
    /\ files = << >>
    /\ handlers = << >>

\* the answers of a request, the category_scores of an AI response
AnswerLists == UNION { [1..n -> Answers] : n \in 1..MaxCategories }
ScoreLists == UNION { [1..n -> Percentages] : n \in 1..MaxCategories }

\* the graders keep nothing between requests: each request is made on a fresh
\* grader
FreshGrader == last.op = "init"

\* GradingAgentV2.execute("grade_single_answer") on one answer
GradeSingleAnswer(answer, ai) ==
    LET g == GradingAgent_grade_single_answer(GradedSession, 1, ai)
    IN  /\ FreshGrader
        /\ last' = GradingCall("grade_single_answer", <<answer>>, <<>>,
                               IF g.success THEN <<g.score>> ELSE <<>>, <<>>, TRUE)
        /\ UNCHANGED <<sessions, state_machines, files, handlers>>

\* AIGradingService.grade_answers when the AI is unavailable or fails
FallbackGrading(answers) ==
    LET category_scores == fallback_category_scores(answers)
    IN  /\ FreshGrader
        /\ last' = GradingCall("_fallback_grading", answers, category_scores,
                               category_scores,
                               fallback_follow_up_questions(category_scores), TRUE)
        /\ UNCHANGED <<sessions, state_machines, files, handlers>>

\* AIGradingService.grade_answers on the AI path: follow-ups for a parsed response
GenerateFollowUpQuestions(category_scores, failing) ==
    /\ FreshGrader
    /\ last' = GradingCall("_generate_follow_up_questions", <<>>, category_scores,
                           category_scores,
                           _generate_follow_up_questions(category_scores, failing),
                           failing = {})
    /\ UNCHANGED <<sessions, state_machines, files, handlers>>

\* GradingAgentV2.execute("grade_complete_session"): the weak-category list
GradeCompleteSession(category_scores) ==
    /\ FreshGrader
    /\ last' = GradingCall("_grade_complete_session", <<>>, category_scores,
                           category_scores, weak_categories(category_scores), TRUE)
    /\ UNCHANGED <<sessions, state_machines, files, handlers>>

GradingNext ==
    \/ \E a \in Answers, ai \in AIOutcomes : GradeSingleAnswer(a, ai)
    \/ \E answers \in AnswerLists : FallbackGrading(answers)
    \/ \E cs \in ScoreLists :
          \E failing \in SUBSET (1..Len(cs)) : GenerateFollowUpQuestions(cs, failing)
    \/ \E cs \in ScoreLists : GradeCompleteSession(cs)

\* the graders on every request
GradingSpec == GradingInit /\ [][GradingNext]_vars

----------------------------------------------------------------------------
(* session/state_manager.py with persistence_type = "file": a session is      *)
(* written as JSON text by _save_to_file and rebuilt by _load_from_file       *)

\* Optional[str]: None, or a string
None == [is_none |-> TRUE, value |-> ""]
Some(v) == [is_none |-> FALSE, value |-> v]

\* datetime.utcnow(): a naive datetime, here its second and its microsecond
Datetimes == { [second |-> s, microsecond |-> u] : s \in 1..2, u \in {0, 250} }

\* a default that writes a datetime to the second only
json_default_seconds(dt) == << dt.second >>

\* json.dump(..., default=str) on a datetime: str(datetime) is
\* "YYYY-MM-DD HH:MM:SS", followed by ".ffffff" unless the microsecond is 0.
\* The text is kept as the list of its numeric parts.
json_default(dt) ==
    IF dt.microsecond = 0
    THEN << dt.second >>
    ELSE << dt.second, dt.microsecond >>

\* the coercion of a datetime field from its text when SessionData(**data) is
\* built: a missing fraction is microsecond 0
parse_datetime(text) ==
    [second |-> text[1], microsecond |-> IF Len(text) > 1 THEN text[2] ELSE 0]

\* json.dump on an Optional[str]: null for None
json_optional(v) == IF v.is_none THEN [null |-> TRUE, string |-> ""]
                    ELSE [null |-> FALSE, string |-> v.value]

\* the coercion of an Optional[str] field: None for null
parse_optional(j) == IF j.null THEN None ELSE Some(j.string)

\* the fields of the models that hold a datetime, and the one that is Optional
DatetimeFields == {"created_at", "updated_at", "timestamp"}
OptionalFields == {"user_id"}
\* the fields that hold a list of models
ListFields == {"questions_asked", "answers", "grades", "follow_up_questions"}

\* json.dump of model.dict() for a model without nested models: str-valued
\* enums (SessionState, QuestionType), strings and numbers are written as they
\* are, datetimes go through default
dump_model(model) ==
    [f \in DOMAIN model |->
        IF f \in DatetimeFields THEN json_default(model[f])
        ELSE IF f \in OptionalFields THEN json_optional(model[f])
        ELSE model[f]]

\* Model(**data) for a model without nested models
parse_model(data) ==
    [f \in DOMAIN data |->
        IF f \in DatetimeFields THEN parse_datetime(data[f])
        ELSE IF f \in OptionalFields THEN parse_optional(data[f])
        ELSE data[f]]

\* SessionStateManager._save_to_file: json.dump(session.dict(), f, default=str);
\* the value is the text of the file
_save_to_file(session) ==
    [f \in DOMAIN session |->
        IF f \in ListFields
        THEN [i \in DOMAIN session[f] |-> dump_model(session[f][i])]
        ELSE dump_model(session)[f]]

\* SessionStateManager._load_from_file on an existing file:
\* SessionData(**json.load(f))
_load_from_file(data) ==
    [f \in DOMAIN data |->
        IF f \in ListFields
        THEN [i \in DOMAIN data[f] |-> parse_model(data[f][i])]
        ELSE parse_model(data)[f]]

\* the sessions a manager is asked to save: Question, Answer and GradingResult
\* objects in their lists, each list no longer than MaxAsked
Questions ==
    { [id |-> i, type |-> ty, created_at |-> d] :
         i \in 1..2, ty \in {"diagnostic"}, d \in {[second |-> 1, microsecond |-> 250]} }
AnswerObjects ==
    { [question_id |-> 1, session_id |-> "s1", text |-> "answer", timestamp |-> d] :
         d \in Datetimes }
GradingResults ==
    { [question_id |-> 1, answer_id |-> 1, score |-> sc, needs_follow_up |-> sc < 70] :
         sc \in {40, 75} }
ListsOf(S, n) == UNION { [1..k -> S] : k \in 0..n }

SavedSessions ==
    { [session_id |-> "s1", case_id |-> c, user_id |-> u, state |-> st,
       current_question_index |-> Len(as), total_questions |-> DefaultTotalQuestions,
       questions_asked |-> qs, answers |-> as, grades |-> gs,
       follow_up_questions |-> <<>>, created_at |-> [second |-> 1, microsecond |-> 250],
       updated_at |-> d] :
         c \in CaseIds, u \in {None, Some("user1")},
         st \in {S_INITIALIZED, S_QUESTIONING, S_COMPLETED},
         qs \in ListsOf(Questions, 1), as \in ListsOf(AnswerObjects, MaxAsked),
         gs \in ListsOf(GradingResults, 1), d \in Datetimes }

\* the record of a call on the file backend
FileCall(op, session, loaded) == [op |-> op, session |-> session, loaded |-> loaded]

FileInit ==
    /\ sessions = << >>
    /\ state_machines = << >>
    /\ files = << >>
    /\ handlers = << >>
    /\ last = FileCall("init", << >>, << >>)

\* _save_to_file(session): the file of the session is written
SaveToFile(session) ==
    /\ last.op = "init"
    /\ files' = (session.session_id :> _save_to_file(session))
    /\ last' = FileCall("_save_to_file", session, << >>)
    /\ UNCHANGED <<sessions, state_machines, handlers>>

\* _load_from_file(session_id) by a manager that has the file
LoadFromFile(session_id) ==
    /\ last.op = "_save_to_file"
    /\ session_id \in DOMAIN files
    /\ last' = FileCall("_load_from_file", last.session, _load_from_file(files[session_id]))
    /\ UNCHANGED <<sessions, state_machines, files, handlers>>

FileNext ==
    \/ \E session \in SavedSessions : SaveToFile(session)
    \/ \E session_id \in DOMAIN files : LoadFromFile(session_id)

\* a session written to its file and read back
FileSpec == FileInit /\ [][FileNext]_vars

----------------------------------------------------------------------------
(* The orchestrator over a SessionStateManager("file", config), across a       *)
(* restart of the process: the files survive, the store and the machines do   *)
(* not                                                                        *)

\* start_session: SessionStateManager.create_session writes the file of the
\* session as it was created; what start_session then changes on the object
\* reaches the file only through update_session
StartSessionOnFiles(case_id, case_ok, load) ==
    /\ DOMAIN files \subseteq DOMAIN sessions
    /\ start_session(MaxSessions, case_id, case_ok, load)
    /\ files' = [s \in DOMAIN sessions' |->
                    IF s \in DOMAIN files THEN files[s]
                    ELSE _save_to_file(NewSessionData(case_id))]
    /\ UNCHANGED handlers

\* the process is restarted: a new SessionOrchestrator with an empty store and
\* an empty state_machines dict, over the same directory of files
Restart ==
    /\ DOMAIN sessions # {}
    /\ sessions' = << >>
    /\ state_machines' = << >>
    /\ last' = Call("restart", 0, "", "none", "none", -1, "")
    /\ UNCHANGED <<files, handlers>>

\* SessionStateManager.get_session with persistence_type = "file": a session the
\* store misses is loaded from its file and put into the store
SessionStateManager_get_session_file(store, dir, session_id) ==
    IF session_id \in DOMAIN store
    THEN [raised |-> "none", found |-> TRUE, store |-> store]
    ELSE IF session_id \in DOMAIN dir
    THEN [raised |-> "none", found |-> TRUE,
          store |-> [s \in (DOMAIN store) \cup {session_id} |->
                        IF s = session_id THEN _load_from_file(dir[s]) ELSE store[s]]]
    ELSE [raised |-> "SessionNotFoundError", found |-> FALSE, store |-> store]

\* the two lookups process_action and get_session_state begin with
lookups(session_id) ==
    LET r == SessionStateManager_get_session_file(sessions, files, session_id)
    IN  [store |-> r.store,
         raised |-> IF r.raised # "none" THEN r.raised
                    ELSE IF session_id \notin DOMAIN state_machines
                    THEN "SessionNotFoundError" ELSE "none"]

\* SessionOrchestrator.process_action over the file-backed manager
ProcessActionOnFiles(session_id, action) ==
    LET l == lookups(session_id)
    IN  IF l.raised # "none"
        THEN /\ sessions' = l.store
             /\ last' = Call("process_action", session_id, action, l.raised,
                             "none", -1, "")
             /\ UNCHANGED <<state_machines, files, handlers>>
        ELSE LET h == dispatch(action, NoData, l.store[session_id],
                               state_machines[session_id], NoAI)
             IN  /\ sessions' = [l.store EXCEPT ![session_id] = h.sd]
                 /\ state_machines' = [state_machines EXCEPT ![session_id] = h.sm]
                 /\ last' = Call("process_action", session_id, action, h.raised,
                                 h.status, h.score, h.feedback)
                 /\ UNCHANGED <<files, handlers>>

\* SessionOrchestrator.get_session_state over the file-backed manager
GetSessionStateOnFiles(session_id) ==
    LET l == lookups(session_id)
    IN  /\ sessions' = l.store
        /\ last' = StateCall(session_id, l.raised,
                             IF l.raised = "none" THEN progress(l.store[session_id])
                             ELSE progress(NewSessionData("")))
        /\ UNCHANGED <<state_machines, files, handlers>>

RestartNext ==
    \/ \E c \in CaseIds, ok \in BOOLEAN, load \in QuestionLoads :
          StartSessionOnFiles(c, ok, load)
    \/ Restart
    \/ \E s \in DOMAIN files, a \in ActionNames \ {"submit_answer"} :
          ProcessActionOnFiles(s, a)
    \/ \E s \in DOMAIN files : GetSessionStateOnFiles(s)

\* sessions kept in files, across restarts of the process
RestartSpec == Init /\ [][RestartNext]_vars

----------------------------------------------------------------------------
(* Two requests on one session, served by one event loop: a handler runs      *)
(* until it awaits the OpenAI call of the grading agent (the one await of the *)
(* orchestrator that yields), and the other request runs in between           *)

\* what a request finds and leaves: the Session object, the machine object and
\* whether state_machines still holds the machine
World(sd, sm, held) == [sd |-> sd, sm |-> sm, held |-> held]

\* the requests of a client on a session
SubmitRequests(sd) ==
    { [op |-> "process_action", action |-> "submit_answer", data |-> d, ai |-> NoAI] :
         d \in { x \in SubmitData(sd) : x.question_id = 0 } }
    \cup { [op |-> "process_action", action |-> "submit_answer", data |-> d, ai |-> ai] :
              d \in { x \in SubmitData(sd) : x.question_id # 0 }, ai \in AIOutcomes }
OtherRequests ==
    { [op |-> op, action |-> "", data |-> NoData, ai |-> NoAI] :
         op \in {"end_session", "get_session_state"} }
    \cup { [op |-> "process_action", action |-> a, data |-> NoData, ai |-> NoAI] :
              a \in ActionNames \ {"submit_answer"} }

\* a step of a request: the world it leaves, where the request stands, and the
\* record of the call when it has ended
Stepped(w, pc, call) == [sd |-> w.sd, sm |-> w.sm, held |-> w.held, pc |-> pc, call |-> call]

\* a request served from its arrival to its end with nothing in between
run(session_id, req, w) ==
    IF req.op = "end_session"
    THEN Stepped(World([w.sd EXCEPT !.state = S_COMPLETED], w.sm,
                       w.held /\ update_session_call # "none"),
                 "done",
                 EndCall(session_id, update_session_call,
                         IF update_session_call # "none" THEN [num |-> -1, den |-> 1]
                         ELSE get_average_score(w.sd)))
    ELSE IF ~w.held
    THEN Stepped(w, "done",
                 Call(req.op, session_id, req.action, "SessionNotFoundError", "none", -1, ""))
    ELSE IF req.op = "get_session_state"
    THEN Stepped(w, "done", StateCall(session_id, "none", progress(w.sd)))
    ELSE LET h == dispatch(req.action, req.data, w.sd, w.sm, req.ai)
         IN  Stepped(World(h.sd, h.sm, w.held), "done",
                     Call("process_action", session_id, req.action, h.raised,
                          h.status, h.score, h.feedback))

\* the request is a submit_answer that reaches the OpenAI call: the guard admits
\* it and the grading agent finds the question
suspends(req, w) ==
    /\ req.op = "process_action" /\ req.action = "submit_answer"
    /\ w.held
    /\ "submit_answer" \in get_valid_actions(w.sm)
    /\ \E i \in 1..Len(w.sd.questions_asked) : w.sd.questions_asked[i] = req.data.question_id

\* a request from its arrival to its first await that yields, or to its end
begin(session_id, req, w) ==
    IF suspends(req, w)
    THEN LET b == _submit_answer_before_await(req.data, w.sd, w.sm)
         IN  Stepped(World(b.sd, b.sm, w.held), "suspended",
                     Call("await", session_id, req.action, "none", "none", -1, ""))
    ELSE run(session_id, req, w)

\* a suspended submit_answer from the response of the OpenAI call to its end
resume(session_id, req, w) ==
    LET g == GradingAgent_grade_single_answer(w.sd, req.data.question_id, req.ai)
        h == _submit_answer_after_await(req.data, w.sd, w.sm, g)
    IN  Stepped(World(h.sd, h.sm, w.held), "done",
                Call("process_action", session_id, req.action, h.raised,
                     h.status, h.score, h.feedback))

\* the world of a session with requests in flight (the handlers hold the machine
\* object even when the dict has dropped it)
CurrentWorld(s) == World(sessions[s], handlers[s].sm, s \in DOMAIN state_machines)

\* two requests arrive on session s: a submit_answer and any other request
Arrive(s, a, b) ==
    /\ handlers = << >>
    /\ s \in DOMAIN state_machines
    /\ handlers' = (s :> [pre |-> World(sessions[s], state_machines[s], TRUE),
                          sm |-> state_machines[s],
                          reqs |-> <<a, b>>,
                          pc |-> <<"ready", "ready">>,
                          overlapped |-> FALSE])
    /\ UNCHANGED <<sessions, state_machines, last, files>>

\* the event loop runs request i of session s from where it stands to r
Served(s, i, r) ==
    /\ sessions' = [sessions EXCEPT ![s] = r.sd]
    /\ state_machines' =
          IF r.held THEN [state_machines EXCEPT ![s] = r.sm]
          ELSE [x \in (DOMAIN state_machines) \ {s} |-> state_machines[x]]
    /\ handlers' = [handlers EXCEPT ![s].pc[i] = r.pc,
                                    ![s].sm = r.sm,
                                    ![s].overlapped = @ \/ handlers[s].pc[3 - i] = "suspended"]
    /\ last' = r.call
    /\ UNCHANGED files

RequestBegin(s, i) ==
    /\ s \in DOMAIN handlers
    /\ handlers[s].pc[i] = "ready"
    /\ Served(s, i, begin(s, handlers[s].reqs[i], CurrentWorld(s)))

RequestResume(s, i) ==
    /\ s \in DOMAIN handlers
    /\ handlers[s].pc[i] = "suspended"
    /\ Served(s, i, resume(s, handlers[s].reqs[i], CurrentWorld(s)))

\* a session is brought to some point of its question loop, then two requests
\* arrive on it together
RaceNext ==
    \/ /\ handlers = << >>
       /\ \/ \E c \in CaseIds, n \in 1..MaxQuestions :
                StartSession(MaxHandlerSessions, c, TRUE, [ok |-> TRUE, n |-> n])
          \/ \E s \in DOMAIN sessions : ProcessAction(s, "start_questions", NoData, NoAI)
          \/ \E s \in DOMAIN sessions :
                QuestionsAsked(DOMAIN sessions) < MaxAsked /\ HandleGetQuestion(s)
          \/ \E s \in DOMAIN sessions :
                \E d \in SubmitData(sessions[s]) :
                   \E ai \in AICalls(s, d) : ProcessAction(s, "submit_answer", d, ai)
    \/ \E s \in DOMAIN sessions :
          \E a \in SubmitRequests(sessions[s]),
             b \in OtherRequests \cup SubmitRequests(sessions[s]) : Arrive(s, a, b)
    \/ \E s \in DOMAIN sessions, i \in 1..2 : RequestBegin(s, i)
    \/ \E s \in DOMAIN sessions, i \in 1..2 : RequestResume(s, i)

\* simultaneous requests on one session
RaceSpec == Init /\ [][RaceNext]_vars

----------------------------------------------------------------------------
(* Properties *)

\* the table has a row that leaves state st under the action name a
TableAllows(st, a) ==
    \E i \in 1..Len(_define_transitions) :
        /\ _define_transitions[i].from_state = st
        /\ _define_transitions[i].action = a

\* the table has a row from state st to state t
TableStep(st, t) ==
    \E i \in 1..Len(_define_transitions) :
        /\ _define_transitions[i].from_state = st
        /\ _define_transitions[i].to_state = t

\* the step is a process_action(s, a, ...) call
IsProcessAction(s, a) ==
    /\ last'.op = "process_action"
    /\ last'.session_id = s
    /\ last'.action = a

\* the step is a submit_answer on s whose handler recorded a grade
GradedSubmit(s) ==
    /\ IsProcessAction(s, "submit_answer")
    /\ Len(sessions'[s].grades) = Len(sessions[s].grades) + 1

LastGrade(sd) == sd.grades[Len(sd.grades)]

\* C1: process_action with an action that no table row allows in the machine's
\* current state raises InvalidStateTransition and leaves the machine's
\* current_state and the session's answers, grades, questions_asked and
\* current_question_index as they were.
C1_InvalidActionRejected ==
    [][\A s \in DOMAIN sessions : \A a \in ActionNames :
          ( /\ IsProcessAction(s, a)
            /\ s \in DOMAIN state_machines
            /\ ~TableAllows(state_machines[s].current_state, a) )
          => /\ last'.raised = "InvalidStateTransition"
             /\ state_machines'[s].current_state = state_machines[s].current_state
             /\ sessions'[s].answers = sessions[s].answers
             /\ sessions'[s].grades = sessions[s].grades
             /\ sessions'[s].questions_asked = sessions[s].questions_asked
             /\ sessions'[s].current_question_index = sessions[s].current_question_index
      ]_vars

\* C1 witness: submit_answer was rejected while the machine is in CASE_LOADED
C1_Witness ==
    /\ last.op = "process_action"
    /\ last.action = "submit_answer"
    /\ last.raised = "InvalidStateTransition"
    /\ last.session_id \in DOMAIN state_machines
    /\ state_machines[last.session_id].current_state = CASE_LOADED

\* C2: process_action on a session_id the store has no session for raises
\* SessionNotFoundError, whatever the action, and leaves the store and the
\* state-machine map as they were.
C2_UnknownSessionNotFound ==
    [][( /\ last'.op = "process_action"
         /\ last'.session_id \notin DOMAIN sessions )
       => /\ last'.raised = "SessionNotFoundError"
          /\ sessions' = sessions
          /\ state_machines' = state_machines
      ]_vars

\* C2 witness: an unknown id was refused while another session exists
C2_Witness ==
    /\ last.op = "process_action"
    /\ last.raised = "SessionNotFoundError"
    /\ last.session_id \notin DOMAIN sessions
    /\ DOMAIN sessions # {}

\* C3 (as claimed): a submit_answer processed in AWAITING_ANSWER whose grading
\* succeeds with score s returns a result that carries the recorded grade's score
\* and feedback; with s below the threshold the machine ends in ASKING_FOLLOW_UP
\* and the status is follow_up_needed; otherwise the index is incremented and the
\* machine ends in ASKING_DIAGNOSTIC with next_question when the new index is
\* below total_questions, in SESSION_COMPLETE with complete when it is not.
C3_SubmitBranchesAndResult ==
    [][\A s \in DOMAIN sessions :
          ( /\ GradedSubmit(s)
            /\ state_machines[s].current_state = AWAITING_ANSWER )
          => LET g == LastGrade(sessions'[s])
                 idx == sessions[s].current_question_index
                 idx2 == sessions'[s].current_question_index
                 cs2 == state_machines'[s].current_state
             IN  /\ last'.raised = "none"
                 /\ last'.score = g.score
                 /\ last'.feedback = g.feedback
                 /\ IF g.score < follow_up_threshold
                    THEN cs2 = ASKING_FOLLOW_UP /\ last'.status = "follow_up_needed"
                    ELSE /\ idx2 = idx + 1
                         /\ IF idx2 < sessions'[s].total_questions
                            THEN cs2 = ASKING_DIAGNOSTIC /\ last'.status = "next_question"
                            ELSE cs2 = SESSION_COMPLETE /\ last'.status = "complete"
      ]_vars

\* the index of s changed in this step through a submit_answer that raised it by
\* one and recorded a grade at or above the threshold, and no follow-up was started
IndexStepIsGradedAdvance(s) ==
    /\ GradedSubmit(s)
    /\ sessions'[s].current_question_index = sessions[s].current_question_index + 1
    /\ LastGrade(sessions'[s]).score >= follow_up_threshold
    /\ state_machines'[s].current_state # ASKING_FOLLOW_UP

\* C4 (as claimed): current_question_index never decreases, and every step that
\* changes it is a submit_answer that raises it by one, records a grade at or
\* above the threshold, and leaves the new index below total_questions.
C4_IndexAdvanceLeavesQuestions ==
    [][\A s \in DOMAIN sessions :
          sessions'[s].current_question_index # sessions[s].current_question_index
          => /\ IndexStepIsGradedAdvance(s)
             /\ sessions'[s].current_question_index < sessions'[s].total_questions
      ]_vars

\* C4 (amended): current_question_index never decreases, and every step that
\* changes it is a submit_answer that raises it by one and records a grade at or
\* above the threshold without starting a follow-up; the new index is at most
\* total_questions, and it is below total_questions exactly when the machine
\* goes on to ASKING_DIAGNOSTIC.
C4_IndexAdvance ==
    [][\A s \in DOMAIN sessions :
          sessions'[s].current_question_index # sessions[s].current_question_index
          => /\ IndexStepIsGradedAdvance(s)
             /\ sessions'[s].current_question_index <= sessions'[s].total_questions
             /\ (sessions'[s].current_question_index < sessions'[s].total_questions
                 <=> state_machines'[s].current_state = ASKING_DIAGNOSTIC)
      ]_vars

\* C4 witness: the answer to the last question raised the index to total_questions
C4_Witness ==
    /\ last.op = "process_action"
    /\ last.action = "submit_answer"
    /\ last.session_id \in DOMAIN sessions
    /\ sessions[last.session_id].total_questions = MaxQuestions
    /\ sessions[last.session_id].current_question_index = MaxQuestions
    /\ Len(sessions[last.session_id].grades) = MaxQuestions

\* C5 (as claimed): when a handler reports a provider failure (status "error") the
\* machine's current_state is what it was before the call and the same action is
\* still in the machine's valid-action set.
C5_ErrorLeavesStateForRetry ==
    [][\A s \in DOMAIN sessions :
          ( /\ last'.op \in {"process_action", "_handle_get_question"}
            /\ last'.session_id = s
            /\ last'.status = "error"
            /\ s \in DOMAIN state_machines )
          => /\ last'.raised = "none"
             /\ state_machines'[s].current_state = state_machines[s].current_state
             /\ last'.action \in get_valid_actions(state_machines'[s])
      ]_vars

\* C6 (as claimed): a start_session that fails because a provider reports failure
\* leaves no session and no state machine for the generated id.
C6_FailedStartLeavesNothing ==
    (last.op = "start_session" /\ last.raised = "Exception")
    => /\ last.session_id \notin DOMAIN sessions
       /\ last.session_id \notin DOMAIN state_machines

\* C7 (as claimed): in a session started with at least one question, every call
\* of the sequence start_session, start_questions, get_question, submit_answer,
\* ..., and the get_question after SESSION_COMPLETE, returns without an exception.
C7_HappyPathAccepted ==
    [][/\ ( /\ last'.op = "start_session"
            /\ last'.session_id \in DOMAIN sessions'
            /\ sessions'[last'.session_id].has_case_info
            /\ sessions'[last'.session_id].available_questions # <<>> )
          => last'.raised = "none"
       /\ \A s \in DOMAIN sessions :
            ( /\ s \in DOMAIN state_machines
              /\ sessions[s].available_questions # <<>>
              /\ LET cs == state_machines[s].current_state
                 IN  \/ IsProcessAction(s, "start_questions") /\ cs = CASE_LOADED
                     \/ IsProcessAction(s, "get_question")
                          /\ cs \in {ASKING_DIAGNOSTIC, SESSION_COMPLETE}
                     \/ IsProcessAction(s, "submit_answer") /\ cs = AWAITING_ANSWER
                          /\ GradedSubmit(s) )
            => last'.raised = "none"
      ]_vars

\* C8 (as claimed): a submit_answer in AWAITING_ANSWER that records a grade
\* below the threshold returns follow_up_needed and leaves the machine in
\* ASKING_FOLLOW_UP with current_question_index unchanged, and from
\* ASKING_FOLLOW_UP the machine goes nowhere but to AWAITING_ANSWER, the index
\* staying where it is while the machine stays.
C8_FollowUpNeededHolds ==
    [][\A s \in DOMAIN sessions :
          /\ ( /\ GradedSubmit(s)
               /\ state_machines[s].current_state = AWAITING_ANSWER
               /\ LastGrade(sessions'[s]).score < follow_up_threshold )
             => /\ last'.raised = "none"
                /\ last'.status = "follow_up_needed"
                /\ state_machines'[s].current_state = ASKING_FOLLOW_UP
                /\ sessions'[s].current_question_index
                     = sessions[s].current_question_index
          /\ ( s \in DOMAIN state_machines
               /\ state_machines[s].current_state = ASKING_FOLLOW_UP )
             => /\ state_machines'[s].current_state \in {ASKING_FOLLOW_UP, AWAITING_ANSWER}
                /\ state_machines'[s].current_state = ASKING_FOLLOW_UP
                   => sessions'[s].current_question_index
                        = sessions[s].current_question_index
      ]_vars

\* the last two states of a machine's history
LastTwo(sm) ==
    SubSeq(sm.state_history, Len(sm.state_history) - 1, Len(sm.state_history))

\* C9: process_action admits submit_answer exactly when the machine is in
\* AWAITING_ANSWER; the machine entered that state from ASKING_DIAGNOSTIC or
\* ASKING_FOLLOW_UP, and a question has been asked since the previous admitted
\* submit_answer (there are more questions asked than answers recorded).
C9_SubmitOnlyWhenAwaiting ==
    [][\A s \in DOMAIN sessions :
          ( IsProcessAction(s, "submit_answer") /\ s \in DOMAIN state_machines )
          => /\ last'.raised # "InvalidStateTransition"
                <=> state_machines[s].current_state = AWAITING_ANSWER
             /\ last'.raised # "InvalidStateTransition"
                => /\ LastTwo(state_machines[s])
                        \in { <<ASKING_DIAGNOSTIC, AWAITING_ANSWER>>,
                              <<ASKING_FOLLOW_UP, AWAITING_ANSWER>> }
                   /\ Len(sessions[s].answers) < Len(sessions[s].questions_asked)
                   /\ Len(sessions'[s].answers) = Len(sessions[s].answers) + 1
             /\ last'.raised = "InvalidStateTransition"
                => sessions'[s].answers = sessions[s].answers
      ]_vars

\* C9 witness: a second submit_answer was admitted in the session
C9_Witness ==
    /\ last.op = "process_action"
    /\ last.action = "submit_answer"
    /\ last.raised # "InvalidStateTransition"
    /\ last.session_id \in DOMAIN sessions
    /\ Len(sessions[last.session_id].answers) = 2
    /\ Len(sessions[last.session_id].questions_asked) = 2

\* C10: the state history of every session's machine starts at INITIALIZED, each
\* state in it follows its predecessor by a row of the transition table, and it
\* ends in the machine's current_state.
C10_HistoryIsTablePath ==
    \A s \in DOMAIN state_machines :
        LET h == state_machines[s].state_history
        IN  /\ h[1] = INITIALIZED
            /\ h[Len(h)] = state_machines[s].current_state
            /\ \A i \in 1..(Len(h) - 1) : TableStep(h[i], h[i + 1])

\* C10 witness: a machine went through two rounds of the question loop to
\* SESSION_COMPLETE
C10_Witness ==
    \E s \in DOMAIN state_machines :
        /\ state_machines[s].current_state = SESSION_COMPLETE
        /\ Len(state_machines[s].state_history) >= 11

\* the step is the call transition(t, a) on the machine driven on its own
IsTransitionCall(t, a) ==
    /\ last'.op = "transition"
    /\ last'.to_state = t
    /\ last'.action = a

\* C11: transition(to, action) called when no table row matches
\* (current_state, to, action) leaves current_state and state_history exactly as
\* they were, for every current state, target state and action name.
C11_InvalidTransitionNoChange ==
    [][\A t \in FlowState, a \in TableActions :
          ( /\ IsTransitionCall(t, a)
            /\ ~\E i \in 1..Len(_define_transitions) :
                   _define_transitions[i]
                     = StateTransition(state_machines[1].current_state, t, a) )
          => /\ state_machines'[1].current_state = state_machines[1].current_state
             /\ state_machines'[1].state_history = state_machines[1].state_history
      ]_vars

\* C11 witness: an invalid transition was attempted on a machine that had moved
\* on from INITIALIZED (submit_answer to GRADING_ANSWER while in ASKING_DIAGNOSTIC)
C11_Witness ==
    /\ last.op = "transition"
    /\ last.to_state = GRADING_ANSWER
    /\ last.action = "submit_answer"
    /\ state_machines[1].current_state = ASKING_DIAGNOSTIC
    /\ Len(state_machines[1].state_history) = 3

\* C12 (as claimed): transition(to, action) called when no table row matches
\* (current_state, to, action) raises InvalidStateTransition.
C12_InvalidTransitionSignalled ==
    [][\A t \in FlowState, a \in TableActions :
          ( /\ IsTransitionCall(t, a)
            /\ ~\E i \in 1..Len(_define_transitions) :
                   _define_transitions[i]
                     = StateTransition(state_machines[1].current_state, t, a) )
          => last'.raised = "InvalidStateTransition"
      ]_vars

\* C13: for every current state, target state and action name,
\* can_transition(to, action) is true iff (current_state, to, action) is one of
\* the 15 rows of the transition table, and transition(to, action) changes
\* current_state to `to` iff can_transition(to, action).
C13_CanTransitionIsTable ==
    [][LET Rows ==
             { <<INITIALIZED, CASE_LOADED, "load_case">>,
               <<CASE_LOADED, ASKING_DIAGNOSTIC, "start_questions">>,
               <<ASKING_DIAGNOSTIC, AWAITING_ANSWER, "ask_question">>,
               <<AWAITING_ANSWER, GRADING_ANSWER, "submit_answer">>,
               <<GRADING_ANSWER, DECIDING_FOLLOW_UP, "grade_complete">>,
               <<DECIDING_FOLLOW_UP, ASKING_FOLLOW_UP, "needs_follow_up">>,
               <<DECIDING_FOLLOW_UP, ASKING_DIAGNOSTIC, "next_question">>,
               <<DECIDING_FOLLOW_UP, SESSION_COMPLETE, "all_complete">>,
               <<DECIDING_FOLLOW_UP, PROVIDING_TEACHING, "provide_teaching">>,
               <<ASKING_FOLLOW_UP, AWAITING_ANSWER, "ask_follow_up">>,
               <<PROVIDING_TEACHING, ASKING_DIAGNOSTIC, "continue_questions">>,
               <<PROVIDING_TEACHING, SESSION_COMPLETE, "complete">>,
               <<ASKING_DIAGNOSTIC, ERROR, "error">>,
               <<GRADING_ANSWER, ERROR, "error">>,
               <<ERROR, INITIALIZED, "reset">> }
           cs == state_machines[1].current_state
       IN  /\ Cardinality(Rows) = 15
           /\ last'.op = "can_transition"
              => (last'.returned <=> <<cs, last'.to_state, last'.action>> \in Rows)
           /\ last'.op = "transition"
              => /\ last'.returned <=> <<cs, last'.to_state, last'.action>> \in Rows
                 /\ last'.returned
                    <=> /\ state_machines'[1].current_state = last'.to_state
                        /\ state_machines'[1].state_history
                             = Append(state_machines[1].state_history, last'.to_state)
                 /\ ~last'.returned => state_machines' = state_machines
      ]_vars

\* C13 witness: can_transition answered true in DECIDING_FOLLOW_UP, the state with
\* four rows, and a transition was then made from it
C13_Witness ==
    /\ last.op = "transition"
    /\ last.returned
    /\ last.action = "provide_teaching"
    /\ state_machines[1].current_state = PROVIDING_TEACHING

\* C14: every machine starts in INITIALIZED; once current_state is
\* SESSION_COMPLETE no call transition(to, action) changes it and
\* get_valid_actions() is empty; once current_state is ERROR the only
\* transition call that changes it is (INITIALIZED, "reset").
C14_TerminalStates ==
    [][LET cs == state_machines[1].current_state
       IN  /\ state_machines[1].state_history[1] = INITIALIZED
           /\ ( cs = SESSION_COMPLETE /\ last'.op = "transition" )
              => state_machines' = state_machines /\ ~last'.returned
           /\ ( cs = SESSION_COMPLETE /\ last'.op = "get_valid_actions" )
              => last'.valid = {}
           /\ ( cs = ERROR /\ last'.op = "transition"
                /\ state_machines'[1].current_state # ERROR )
              => /\ last'.to_state = INITIALIZED
                 /\ last'.action = "reset"
                 /\ state_machines'[1].current_state = INITIALIZED
           /\ ( cs = ERROR /\ last'.op = "get_valid_actions" )
              => last'.valid = {"reset"}
      ]_vars

\* C14 witness: get_valid_actions was called on a machine in SESSION_COMPLETE
\* after a transition had been tried there
C14_Witness ==
    /\ last.op = "get_valid_actions"
    /\ last.valid = {}
    /\ state_machines[1].current_state = SESSION_COMPLETE

\* C15: get_session_state(session_id) changes neither the session in the store
\* nor any state machine, and the progress values it returns are the stored
\* session's own (its counts of answers, grades, follow-ups and teaching points,
\* its index and its state), so a second call with no mutation in between
\* returns the same progress.
C15_GetSessionStateReadOnly ==
    [][last'.op = "get_session_state"
       => /\ sessions' = sessions
          /\ state_machines' = state_machines
          /\ last'.raised = "none"
             => LET sd == sessions[last'.session_id]
                IN  /\ last'.progress.questions_answered = Len(sd.answers)
                    /\ last'.progress.current_question_index = sd.current_question_index
                    /\ last'.progress.grades_received = Len(sd.grades)
                    /\ last'.progress.follow_ups_completed = Len(sd.follow_up_questions)
                    /\ last'.progress.teaching_points = Len(sd.teaching_points)
                    /\ last'.progress.current_state = sd.state
          /\ ( last.op = "get_session_state" /\ last.session_id = last'.session_id )
             => last'.progress = last.progress
      ]_vars

\* C15 witness: get_session_state returned on a session that has a question
\* asked and not yet answered, after a first answer was graded
C15_Witness ==
    /\ last.op = "get_session_state"
    /\ last.raised = "none"
    /\ last.progress.questions_answered = 1
    /\ last.progress.grades_received = 1
    /\ Len(sessions[last.session_id].questions_asked) = 2
    /\ state_machines[last.session_id].current_state = AWAITING_ANSWER

\* C16 (as claimed): after end_session(session_id) on an existing session, in
\* whatever flow state, the call has returned, the stored session's state is
\* COMPLETED, the session is still in the store with its answers and grades
\* unchanged, and the orchestrator holds no state machine for the session.
C16_EndSessionReleasesMachine ==
    [][( last'.op = "end_session" /\ last'.session_id \in DOMAIN sessions )
       => LET s == last'.session_id
          IN  /\ last'.raised = "none"
              /\ s \in DOMAIN sessions'
              /\ sessions'[s].state = S_COMPLETED
              /\ sessions'[s].answers = sessions[s].answers
              /\ sessions'[s].grades = sessions[s].grades
              /\ s \notin DOMAIN state_machines'
      ]_vars

\* C17 (as claimed): end_session reports overall_score equal to the unweighted
\* mean of the scores of all grades recorded in the session (their sum divided by
\* their count), and 0.0 when no grade has been recorded.
C17_OverallScoreIsMean ==
    [][( last'.op = "end_session" /\ last'.session_id \in DOMAIN sessions )
       => LET g == sessions[last'.session_id].grades
          IN  /\ last'.raised = "none"
              /\ last'.overall_score.den > 0
              /\ IF g = <<>>
                 THEN last'.overall_score.num = 0
                 ELSE last'.overall_score.num * Len(g)
                        = SumScores(g) * last'.overall_score.den
      ]_vars

\* C18 (as claimed): an answer equal to the skip sentinel always yields score 0:
\* in the per-answer grading of the agent, with the AI's response or with the
\* fallback taken when the AI call fails, and in the service's fallback grading.
C18_SkippedScoresZero ==
    [][/\ last'.op = "grade_single_answer"
          => ( last'.answers[1].text = SKIPPED => last'.scores = <<0>> )
       /\ last'.op = "_fallback_grading"
          => \A i \in 1..Len(last'.answers) :
                last'.answers[i].text = SKIPPED => last'.scores[i] = 0
      ]_vars

\* C19 (as claimed): on every path, follow-ups are written only for categories
\* scoring below the threshold, for the two lowest-scoring of them (all of them
\* if fewer), in ascending score order, ties in order of first appearance.
C19_FollowUpsTwoLowest ==
    [][last'.op \in {"_generate_follow_up_questions", "_fallback_grading",
                     "_grade_complete_session"}
       => LET cs == last'.category_scores
              f == last'.follow_ups
              weak == { c \in 1..Len(cs) : cs[c] < 70 }
              Before(c, d) == cs[c] < cs[d] \/ (cs[c] = cs[d] /\ c < d)
          IN  /\ \A i \in 1..Len(f) : f[i] \in weak
              /\ Len(f) <= 2
              /\ \A i, j \in 1..Len(f) : i < j => Before(f[i], f[j])
              /\ \A i \in 1..Len(f) :
                    Cardinality({ c \in weak : Before(c, f[i]) }) < 2
              /\ last'.complete
                 => Len(f) = (IF Cardinality(weak) < 2 THEN Cardinality(weak) ELSE 2)
      ]_vars

\* C20 (as claimed): whenever submit_answer is admitted in AWAITING_ANSWER for a
\* question that was asked, whatever the AI call does (answers, fails, returns
\* unusable output), exactly one grade is appended for the recorded answer, the
\* machine goes on to ASKING_FOLLOW_UP, ASKING_DIAGNOSTIC or SESSION_COMPLETE,
\* and no error result is returned.
C20_GradingAlwaysProducesResult ==
    [][\A s \in DOMAIN sessions :
          ( /\ IsProcessAction(s, "submit_answer")
            /\ s \in DOMAIN state_machines
            /\ state_machines[s].current_state = AWAITING_ANSWER
            /\ \E i \in 1..Len(sessions[s].questions_asked) :
                  sessions[s].questions_asked[i]
                    = sessions'[s].answers[Len(sessions'[s].answers)].question_id )
          => /\ Len(sessions'[s].answers) = Len(sessions[s].answers) + 1
             /\ Len(sessions'[s].grades) = Len(sessions[s].grades) + 1
             /\ LastGrade(sessions'[s]).question_id
                  = sessions'[s].answers[Len(sessions'[s].answers)].question_id
             /\ state_machines'[s].current_state
                  \in {ASKING_FOLLOW_UP, ASKING_DIAGNOSTIC, SESSION_COMPLETE}
             /\ last'.status # "error"
      ]_vars

C22_SessionsIndependent ==
    [][\A b \in DOMAIN sessions :
          b # last'.session_id =>
             /\ b \in DOMAIN sessions' /\ sessions'[b] = sessions[b]
             /\ b \in DOMAIN state_machines'
             /\ state_machines'[b] = state_machines[b]]_vars

\* session 1 has been ended after its answer was graded while session 2, started
\* later, is still waiting in ASKING_DIAGNOSTIC
C22_Witness ==
    /\ DOMAIN sessions = {1, 2}
    /\ last.op = "end_session" /\ last.session_id = 1
    /\ sessions[1].state = S_COMPLETED /\ Len(sessions[1].grades) = 1
    /\ sessions[2].state = S_QUESTIONING /\ sessions[2].grades = <<>>
    /\ state_machines[2].current_state = ASKING_DIAGNOSTIC
    /\ state_machines[1].current_state # ASKING_DIAGNOSTIC

\* the counts of a session are ordered: grades, answers, questions asked, and
\* the questions there are to ask
CountsOrdered(sd) ==
    /\ Len(sd.grades) <= Len(sd.answers)
    /\ Len(sd.answers) <= Len(sd.questions_asked)
    /\ Len(sd.questions_asked) <= sd.total_questions + Len(sd.follow_up_questions)

\* C23: in every reachable state len(grades) <= len(answers) <=
\* len(questions_asked) <= total_questions + len(follow_up_questions); no answer
\* is recorded for a question that was never asked and no grade without its answer
C23_CountsAndAnswersOfAskedQuestions ==
    \A s \in DOMAIN sessions :
        /\ CountsOrdered(sessions[s])
        /\ \A i \in 1..Len(sessions[s].answers) :
              \E j \in 1..Len(sessions[s].questions_asked) :
                 sessions[s].questions_asked[j] = sessions[s].answers[i].question_id
        /\ \A i \in 1..Len(sessions[s].grades) :
              \E j \in 1..Len(sessions[s].answers) :
                 sessions[s].answers[j].question_id = sessions[s].grades[i].question_id

\* C24 (as claimed): a get_question processed when current_question_index has
\* reached total_questions (every question answered and graded) ends with the
\* machine in SESSION_COMPLETE and a result of status "complete", and appends
\* no question
C24_GetQuestionAtEndCompletes ==
    [][\A s \in DOMAIN sessions :
          ( /\ IsProcessAction(s, "get_question")
            /\ s \in DOMAIN state_machines
            /\ sessions[s].current_question_index > 0
            /\ sessions[s].current_question_index >= sessions[s].total_questions )
          => /\ last'.raised = "none"
             /\ last'.status = "complete"
             /\ state_machines'[s].current_state = SESSION_COMPLETE
             /\ sessions'[s].questions_asked = sessions[s].questions_asked
      ]_vars

\* C25 (as claimed): a process_action with "get_feedback" after a grade is
\* accepted, appends exactly one teaching point and leaves the machine in
\* PROVIDING_TEACHING
C25_GetFeedbackAfterGrade ==
    [][\A s \in DOMAIN sessions :
          ( /\ IsProcessAction(s, "get_feedback")
            /\ s \in DOMAIN state_machines
            /\ Len(sessions[s].grades) > 0 )
          => /\ last'.raised # "InvalidStateTransition"
             /\ Len(sessions'[s].teaching_points) = Len(sessions[s].teaching_points) + 1
             /\ state_machines'[s].current_state = PROVIDING_TEACHING
      ]_vars

\* C26 (as claimed): when a Session is in the store (reloaded from its file after
\* a restart) but no machine exists for it, process_action and get_session_state
\* reconstruct a machine for the session and proceed rather than failing
C26_MachineReconstructed ==
    [][\A s \in DOMAIN files :
          ( /\ last'.op \in {"process_action", "get_session_state"}
            /\ last'.session_id = s
            /\ s \notin DOMAIN state_machines )
          => /\ last'.raised # "SessionNotFoundError"
             /\ s \in DOMAIN state_machines'
      ]_vars

\* both requests of the session have ended
RaceDone(s) == s \in DOMAIN handlers /\ handlers[s].pc = <<"done", "done">>

\* the worlds the two serial orders of the requests leave
SerialWorlds(s) ==
    LET a == handlers[s].reqs[1]
        b == handlers[s].reqs[2]
        w == handlers[s].pre
        ab == run(s, b, run(s, a, w))
        ba == run(s, a, run(s, b, w))
    IN  { World(ab.sd, ab.sm, ab.held), World(ba.sd, ba.sm, ba.held) }

C30_CompletedIsFinal ==
    [][\A s \in DOMAIN sessions :
          ( /\ last.op = "end_session" /\ last.session_id = s
            /\ sessions[s].state = S_COMPLETED )
          => /\ sessions'[s].state = S_COMPLETED
             /\ sessions'[s].grades = sessions[s].grades
      ]_vars

\* C28 (as claimed): in every reachable state of a started session whose machine
\* is not in SESSION_COMPLETE, at least one of the four action names
\* process_action dispatches is in the machine's valid-action set: no session
\* is stuck
C28_SomeDispatchedActionValid ==
    \A s \in DOMAIN state_machines :
        state_machines[s].current_state # SESSION_COMPLETE
        => get_valid_actions(state_machines[s]) \cap Dispatched # {}

\* the correspondence of Session.state and the machine's current_state
StatesAgree(state, current_state) ==
    \/ state = S_CASE_LOADED /\ current_state = CASE_LOADED
    \/ state = S_QUESTIONING /\ current_state \in {ASKING_DIAGNOSTIC, AWAITING_ANSWER}
    \/ state = S_FOLLOW_UP /\ current_state = ASKING_FOLLOW_UP
    \/ state = S_TEACHING /\ current_state = PROVIDING_TEACHING
    \/ state = S_COMPLETED /\ current_state = SESSION_COMPLETE

\* C29 (as claimed): whenever process_action returns normally, Session.state and
\* the machine's current_state agree: CASE_LOADED with CASE_LOADED, QUESTIONING
\* with ASKING_DIAGNOSTIC or AWAITING_ANSWER, FOLLOW_UP with ASKING_FOLLOW_UP,
\* TEACHING with PROVIDING_TEACHING, COMPLETED with SESSION_COMPLETE
C29_StateAgreesWithMachine ==
    \A s \in DOMAIN state_machines :
        ( /\ last.op = "process_action" /\ last.session_id = s
          /\ last.raised = "none" )
        => StatesAgree(sessions[s].state, state_machines[s].current_state)

====
